---------------------------- MODULE Spec2Model ----------------------------
(***************************************************************************)
(* A model of the code-acting agent of this repository:                    *)
(*   - CodeActAgent._parse_response and CodeActAgent.run_agentic_loop      *)
(*     (src/services/code_act_agent/code_act_agent.py),                    *)
(*   - CodeExecutor._safe_import, _restricted_open, execute and its two    *)
(*     modes (src/services/code_executor/code_executor.py).                *)
(*                                                                         *)
(* Text is modelled as a sequence of tokens; the Python string is the      *)
(* concatenation of the tokens.  The tokens are chosen so that no marker   *)
(* arises across a token boundary, hence substring tests and the regular   *)
(* expressions of _parse_response work on whole tokens.                    *)
(***************************************************************************)
EXTENDS Integers, Sequences, FiniteSets, TLC

VARIABLES
    \* ---- CodeActAgent (one agent, one run of run_agentic_loop) ----
    chat_history,      \* self.chat_history: sequence of turns
    iteration_num,     \* self.iteration_num
    final_response,    \* local final_response of run_agentic_loop
    pc,                \* position of the run_agentic_loop coroutine
    requests,          \* number of send_request calls issued in this run
    raised,            \* the exception that ended the run, "" when none
    iter_before,       \* iteration_num when the last model message arrived
    batch,             \* parsed_response_list of the last code message
    sandbox_calls,     \* indices of the blocks passed to execute(), in call order
    block_results,     \* outcome and output of each of these calls
    agg_code_output,   \* agg_code_output when the for loop over the batch ended
    last_working_copy, \* what _get_last_working_copy_abs_path() returns
    \* ---- CodeExecutor ----
    use_multiprocessing, \* self.use_multiprocessing
    locals_dict,         \* self.locals_dict
    execution_history,   \* self.execution_history
    globals_dict,        \* self.globals_dict without its "__" entries
    call_log,            \* the execute calls that returned since the last reset
    last_call,           \* the last operation on the sandbox and what it gave
    process,             \* the worker process of a subprocess-mode execute
    streams,             \* sys.stdout, sys.stderr and the capture of an execute call
    \* ---- _parse_response applied to one text ----
    response,          \* the argument of _parse_response
    codes,             \* the list of code strings that was wrapped (round trip)
    parsed,            \* what _parse_response returned or raised
    \* ---- _restricted_open applied to one request ----
    allowed_filesystem_paths, \* constructor argument (before ensure_all_absolute)
    allowed_file_modes,       \* self.allowed_file_modes
    symlinks,                 \* the symbolic links of the file system
    open_file,                \* argument file
    open_mode,                \* argument mode
    open_result,              \* "opened", or the PermissionError raised
    \* ---- _safe_import applied to one module name ----
    allowed_imports,   \* self.allowed_imports
    import_name,       \* argument name
    import_result      \* "imported" or "ImportError"

agentVars == <<chat_history, iteration_num, final_response, pc, requests, raised,
               iter_before, batch, sandbox_calls, block_results, agg_code_output,
               last_working_copy>>
executorVars == <<use_multiprocessing, locals_dict, execution_history, globals_dict,
                  call_log, last_call, process, streams>>
parseVars == <<response, codes, parsed>>
openVars == <<allowed_filesystem_paths, allowed_file_modes, symlinks, open_file,
              open_mode, open_result>>
importVars == <<allowed_imports, import_name, import_result>>
vars == <<agentVars, executorVars, parseVars, openVars, importVars>>

\* Python's None.  NoneType is no token of any text, so no text equals None.
NoneType == "NoneType"
None == <<NoneType>>

\* An Optional[List[...]] constructor argument: None, or a list.
Unset == [is_none |-> TRUE, items |-> << >>]
ListOf(l) == [is_none |-> FALSE, items |-> l]

\* The Python test  x in list.
InList(x, list) == \E k \in 1..Len(list) : list[k] = x

\* All sequences over S of length at most n.
SeqsUpTo(S, n) == UNION {[1..k -> S] : k \in 0..n}

(***************************************************************************)
(* CodeActAgent._parse_response                                            *)
(***************************************************************************)

\* Bound: the number of tokens of a text given to _parse_response.
MaxLen == 5

\* The tokens of a model message.
MarkerTok == {"<code>", "<CODE>", "</code>", "</CODE>",
              "<response>", "<RESPONSE>", "</response>"}
WhitespaceTok == {" ", "\n"}
Tok == MarkerTok \cup WhitespaceTok \cup {"a"}

\* re.IGNORECASE: the pattern's literal text is compared with the text's
\* characters case-folded.
Lower(t) ==
    CASE t = "<CODE>" -> "<code>"
      [] t = "</CODE>" -> "</code>"
      [] t = "<RESPONSE>" -> "<response>"
      [] OTHER -> t

\* The Python test  sub in text  (case-sensitive substring test).
Contains(text, sub) == \E i \in 1..Len(text) : text[i] = sub

\* The first index k >= from with Lower(text[k]) = lit, 0 when there is none.
RECURSIVE FirstAt(_, _, _)
FirstAt(text, lit, from) ==
    IF from > Len(text) THEN 0
    ELSE IF Lower(text[from]) = lit THEN from
    ELSE FirstAt(text, lit, from + 1)

\* re.findall(open + "(.*?)" + close, text, re.DOTALL | re.IGNORECASE), scanning
\* from index from: leftmost opening marker, then (non-greedy, any character
\* including a line break) up to the first closing marker after it; the scan
\* goes on after that closing marker.
\* Mutant of FindAll: the greedy pattern (.*), which runs to the last closing
\* marker of the text.
RECURSIVE LastAt(_, _, _)
LastAt(text, lit, k) ==
    IF k < 1 THEN 0
    ELSE IF Lower(text[k]) = lit THEN k
    ELSE LastAt(text, lit, k - 1)
FindAllGreedy(open, close, text, from) ==
    LET i == FirstAt(text, open, from)
        j == IF i = 0 THEN 0 ELSE LastAt(text, close, Len(text))
    IN  IF i = 0 \/ j <= i THEN << >>
        ELSE <<SubSeq(text, i + 1, j - 1)>>

RECURSIVE FindAll(_, _, _, _)
FindAll(open, close, text, from) ==
    LET i == FirstAt(text, open, from)
        j == IF i = 0 THEN 0 ELSE FirstAt(text, close, i + 1)
    IN  IF i = 0 \/ j = 0 THEN << >>
        ELSE <<SubSeq(text, i + 1, j - 1)>> \o FindAll(open, close, text, j + 1)

\* str.strip(): leading and trailing whitespace removed.
RECURSIVE LStrip(_)
LStrip(s) ==
    IF s # << >> /\ Head(s) \in WhitespaceTok THEN LStrip(Tail(s)) ELSE s
RECURSIVE RStrip(_)
RStrip(s) ==
    IF s # << >> /\ s[Len(s)] \in WhitespaceTok
    THEN RStrip(SubSeq(s, 1, Len(s) - 1)) ELSE s
Strip(s) == RStrip(LStrip(s))

StripAll(list) == [k \in 1..Len(list) |-> Strip(list[k])]

ValueError(msg) == [type |-> "ValueError", contents |-> <<msg>>]

\* _parse_response(response): [type |-> "code" | "text", contents |-> list], or
\* the ValueError it raises.
_parse_response(resp) ==
    IF resp = None
    THEN ValueError("Invalid XML Response Format: expected <code>...</code> or <response>...</response>")
    ELSE IF Contains(resp, "<code>") /\ Contains(resp, "<response>")
    THEN ValueError("Invalid XML Response Format: <code> and <response> cannot both be present. Only one is allowed.")
    ELSE LET found_codes == FindAll("<code>", "</code>", resp, 1)
             found_responses == FindAll("<response>", "</response>", resp, 1)
         IN  IF found_codes # << >>
             THEN [type |-> "code", contents |-> StripAll(found_codes)]
             ELSE IF found_responses # << >>
             THEN [type |-> "text", contents |-> StripAll(found_responses)]
             ELSE ValueError("Invalid XML Response Format: expected <code>...</code> or <response>...</response>")

\* "\n".join(list)
RECURSIVE JoinLines(_)
JoinLines(list) ==
    IF list = << >> THEN << >>
    ELSE IF Len(list) = 1 THEN list[1]
    ELSE list[1] \o <<"\n">> \o JoinLines(Tail(list))

NotParsed == [type |-> "none", contents |-> << >>]

(***************************************************************************)
(* Values of the variables a specification does not use.                   *)
(***************************************************************************)
SystemTurn == [role |-> "system", content |-> "system_prompt"]

AgentUnused ==
    /\ chat_history = <<SystemTurn>>
    /\ iteration_num = 0
    /\ final_response = << >>
    /\ pc = "constructed"
    /\ requests = 0
    /\ raised = ""
    /\ iter_before = 0
    /\ batch = << >>
    /\ sandbox_calls = << >>
    /\ block_results = << >>
    /\ agg_code_output = << >>
    /\ last_working_copy = ""

\* No operation on the sandbox yet; no worker process.
NoCall == [op |-> "none", n |-> 0]
NoProcess == [parent |-> "idle"]
NoCapture == [at |-> "idle"]

SandboxGhostUnused ==
    /\ call_log = << >>
    /\ last_call = NoCall
    /\ process = NoProcess
    /\ streams = NoCapture

ExecutorUnused ==
    /\ use_multiprocessing = FALSE
    /\ locals_dict = << >>
    /\ execution_history = << >>
    /\ globals_dict = << >>
    /\ SandboxGhostUnused

ParseUnused ==
    /\ response = << >>
    /\ codes = << >>
    /\ parsed = NotParsed

OpenUnused ==
    /\ allowed_filesystem_paths = Unset
    /\ allowed_file_modes = Unset
    /\ symlinks = {}
    /\ open_file = << >>
    /\ open_mode = << >>
    /\ open_result = "none"

ImportUnused ==
    /\ allowed_imports = Unset
    /\ import_name = << >>
    /\ import_result = "none"

(***************************************************************************)
(* SpecParse: _parse_response applied to every text of at most MaxLen      *)
(* tokens, and to None.                                                    *)
(***************************************************************************)
InitParse ==
    /\ response \in SeqsUpTo(Tok, MaxLen) \cup {None}
    /\ codes = << >>
    /\ parsed = NotParsed
    /\ AgentUnused /\ ExecutorUnused /\ OpenUnused /\ ImportUnused

ParseResponse ==
    /\ parsed = NotParsed
    /\ parsed' = _parse_response(response)
    /\ UNCHANGED <<response, codes, agentVars, executorVars, openVars, importVars>>

NextParse == ParseResponse

SpecParse == InitParse /\ [][NextParse]_vars

\* A complete marker pair, matched as the regular expressions match it
\* (case-insensitively, across line breaks).
HasPair(text, open, close) ==
    \E i, j \in 1..Len(text) : i < j /\ Lower(text[i]) = open /\ Lower(text[j]) = close
HasCodePair(text) == HasPair(text, "<code>", "</code>")
HasAnswerPair(text) == HasPair(text, "<response>", "</response>")

\* t is s with its leading and trailing whitespace removed.
IsTrimOf(t, s) ==
    \E i \in 1..(Len(s) + 1), j \in 0..Len(s) :
        /\ t = SubSeq(s, i, j)
        /\ \A k \in 1..(i - 1) : s[k] \in WhitespaceTok
        /\ \A k \in (j + 1)..Len(s) : s[k] \in WhitespaceTok
        /\ t # << >> => (t[1] \notin WhitespaceTok /\ t[Len(t)] \notin WhitespaceTok)

\* C5: a message holding both a code marker pair and an answer marker pair
\* (markers matched case-insensitively) is refused with a format error; it is
\* never parsed as a code batch or as an answer.
C5_BothMarkersRejected ==
    (parsed # NotParsed /\ response # None
        /\ HasCodePair(response) /\ HasAnswerPair(response))
    => parsed.type = "ValueError"

\* C6: the outcome of parse is a code batch only when no answer marker pair is
\* present, and then holds all code spans, trimmed, in order; it is an answer
\* only when no code marker pair is present, and then holds all answer spans;
\* a text with neither complete marker pair (and None) is a format error.
C6_ParseTotal ==
    parsed # NotParsed =>
        /\ parsed.type \in {"code", "text", "ValueError"}
        /\ parsed.type = "code" =>
              /\ ~HasAnswerPair(response)
              /\ Len(parsed.contents) = Len(FindAll("<code>", "</code>", response, 1))
              /\ \A k \in 1..Len(parsed.contents) :
                    IsTrimOf(parsed.contents[k],
                             FindAll("<code>", "</code>", response, 1)[k])
        /\ parsed.type = "text" =>
              /\ ~HasCodePair(response)
              /\ Len(parsed.contents)
                    = Len(FindAll("<response>", "</response>", response, 1))
              /\ \A k \in 1..Len(parsed.contents) :
                    IsTrimOf(parsed.contents[k],
                             FindAll("<response>", "</response>", response, 1)[k])
        /\ (response = None \/ (~HasCodePair(response) /\ ~HasAnswerPair(response)))
              => parsed.type = "ValueError"

(***************************************************************************)
(* SpecWrap: the marker round trip.  A list of code strings is built, each *)
(* string is wrapped in <code>...</code>, the wrapped strings are          *)
(* concatenated and the result is given to _parse_response.                *)
(***************************************************************************)

\* Bound: the size of a list of code strings, counted as the number of its
\* strings plus the number of their tokens.
MaxWrap == 5

\* The tokens of a code string of the round trip.
CodeStringTok == {" ", "\n", "a", "<code>", "</CODE>", "<response>", "<RESPONSE>"}

RECURSIVE TotalLen(_)
TotalLen(list) == IF list = << >> THEN 0 ELSE Len(Head(list)) + TotalLen(Tail(list))
WrapSize(list) == Len(list) + TotalLen(list)

\* "".join("<code>" + c + "</code>" for c in list)
RECURSIVE Wrap(_)
Wrap(list) ==
    IF list = << >> THEN << >>
    ELSE <<"<code>">> \o Head(list) \o <<"</code>">> \o Wrap(Tail(list))

InitWrap ==
    /\ codes = << >>
    /\ response = << >>
    /\ parsed = NotParsed
    /\ AgentUnused /\ ExecutorUnused /\ OpenUnused /\ ImportUnused

\* The list gets one more (empty) code string.
NewCode ==
    /\ parsed = NotParsed
    /\ WrapSize(codes) < MaxWrap
    /\ codes' = Append(codes, << >>)
    /\ UNCHANGED <<response, parsed, agentVars, executorVars, openVars, importVars>>

\* The last code string of the list gets one more token.
AddToken(t) ==
    /\ parsed = NotParsed
    /\ codes # << >>
    /\ WrapSize(codes) < MaxWrap
    /\ codes' = [codes EXCEPT ![Len(codes)] = Append(@, t)]
    /\ UNCHANGED <<response, parsed, agentVars, executorVars, openVars, importVars>>

\* The list is wrapped and parsed.
WrapAndParse ==
    /\ parsed = NotParsed
    /\ response' = Wrap(codes)
    /\ parsed' = _parse_response(Wrap(codes))
    /\ UNCHANGED <<codes, agentVars, executorVars, openVars, importVars>>

NextWrap ==
    \/ NewCode
    \/ \E t \in CodeStringTok : AddToken(t)
    \/ WrapAndParse

SpecWrap == InitWrap /\ [][NextWrap]_vars

\* No string of the list holds a closing code marker, in any letter case.
NoClosingCodeMarker(list) ==
    \A k \in 1..Len(list) : \A i \in 1..Len(list[k]) : Lower(list[k][i]) # "</code>"
\* No string of the list holds an opening answer marker, in any letter case.
NoOpeningAnswerMarker(list) ==
    \A k \in 1..Len(list) : \A i \in 1..Len(list[k]) : Lower(list[k][i]) # "<response>"

\* The parse result is the code batch of the list, each string trimmed, in order.
ReproducesCodes ==
    /\ parsed.type = "code"
    /\ Len(parsed.contents) = Len(codes)
    /\ \A k \in 1..Len(codes) : IsTrimOf(parsed.contents[k], codes[k])

\* C7 as stated: for any list of code strings none of which holds a closing
\* code marker, wrapping, concatenating and parsing gives back the list,
\* trimmed, in order.  (Stated here for the non-empty lists only, and with the
\* closing marker taken in any letter case; the empty list, whose wrapping is
\* the empty text, is refused with a format error as well.)
C7_RoundTripAnyList ==
    (parsed # NotParsed /\ codes # << >> /\ NoClosingCodeMarker(codes))
    => ReproducesCodes

\* C7 amended: for any non-empty list of code strings none of which holds a
\* closing code marker or an opening answer marker (in any letter case),
\* wrapping, concatenating and parsing gives back the list, trimmed, in order.
C7_RoundTrip ==
    (parsed # NotParsed /\ codes # << >>
        /\ NoClosingCodeMarker(codes) /\ NoOpeningAnswerMarker(codes))
    => ReproducesCodes

\* Two code strings, one of them with whitespace to trim and one holding an
\* opening code marker, were wrapped and parsed back.
C7_Witness ==
    /\ parsed.type = "code"
    /\ Len(codes) = 2
    /\ NoClosingCodeMarker(codes) /\ NoOpeningAnswerMarker(codes)
    /\ \E k \in 1..2 : codes[k] # << >> /\ parsed.contents[k] # codes[k]
    /\ \E k \in 1..2 : Contains(codes[k], "<code>")

(***************************************************************************)
(* CodeExecutor._safe_import.  A module name a.b.c is the sequence of its  *)
(* dotted components <<"a", "b", "c">> (what name.split('.') returns);     *)
(* '.'.join(module_parts[:i]) is its prefix of i components.               *)
(***************************************************************************)

\* Bound: the number of dotted components of an imported module name.
MaxParts == 3

Components == {"a", "ab", "b", "c"}
ModuleNames == SeqsUpTo(Components, MaxParts) \ {<< >>}
AllowedImportLists ==
    {<< >>, << <<"a">> >>, << <<"a", "b">> >>, << <<"a", "b", "c">> >>,
     << <<"b">>, <<"a", "b">> >>, << <<"ab">> >>}

\* Mutant of ParentAllowed: the name is compared as a string prefix, so that
\* the allowed module a also admits ab.
StrStartsWith(x, y) == x = y \/ (y = "a" /\ x = "ab") \/ (y = "data" /\ x = "data2")
ParentAllowedByStringPrefix(module_parts, allowed, i) ==
    \E k \in 1..Len(allowed) :
        /\ Len(allowed[k]) <= Len(module_parts)
        /\ Len(allowed[k]) >= 1
        /\ \A n \in 1..(Len(allowed[k]) - 1) : module_parts[n] = allowed[k][n]
        /\ StrStartsWith(module_parts[Len(allowed[k])], allowed[k][Len(allowed[k])])

\* for i in range(len(module_parts), 0, -1): parent = '.'.join(module_parts[:i]);
\* if parent in self.allowed_imports: allowed = True; break
RECURSIVE ParentAllowed(_, _, _)
ParentAllowed(module_parts, allowed, i) ==
    IF i < 1 THEN FALSE
    ELSE IF InList(SubSeq(module_parts, 1, i), allowed) THEN TRUE
    ELSE ParentAllowed(module_parts, allowed, i - 1)

\* _safe_import(name): "imported" when the call reaches __import__, or the
\* ImportError it raises.
_safe_import(name, allowed) ==
    IF ~allowed.is_none
    THEN IF ParentAllowed(name, allowed.items, Len(name))
         THEN "imported" ELSE "ImportError"
    ELSE "imported"

InitImport ==
    /\ allowed_imports \in {Unset} \cup {ListOf(l) : l \in AllowedImportLists}
    /\ import_name \in ModuleNames
    /\ import_result = "none"
    /\ AgentUnused /\ ExecutorUnused /\ ParseUnused /\ OpenUnused

SafeImport ==
    /\ import_result = "none"
    /\ import_result' = _safe_import(import_name, allowed_imports)
    /\ UNCHANGED <<allowed_imports, import_name, agentVars, executorVars, parseVars,
                   openVars>>

NextImport == SafeImport

SpecImport == InitImport /\ [][NextImport]_vars

\* The name itself or one of its dotted-prefix ancestors is in the list.
SelfOrAncestorListed(name, list) ==
    \E i \in 1..Len(name) : \E k \in 1..Len(list) : list[k] = SubSeq(name, 1, i)

\* C10: with an allowed-import list configured, importing a module is allowed
\* if and only if the module or one of its dotted-prefix ancestors is in the
\* list (whole components: the allowed module a does not admit ab), and is
\* refused with an ImportError otherwise; with the list unset every import is
\* allowed.
C10_ImportCheck ==
    import_result # "none" =>
        /\ import_result \in {"imported", "ImportError"}
        /\ allowed_imports.is_none => import_result = "imported"
        /\ ~allowed_imports.is_none =>
              (import_result = "imported"
                  <=> SelfOrAncestorListed(import_name, allowed_imports.items))
        /\ (allowed_imports = ListOf(<< <<"a">> >>) /\ import_name[1] = "ab")
              => import_result = "ImportError"

\* a.b.c was imported because its ancestor a.b (not a.b.c itself) is listed.
C10_Witness ==
    /\ import_result = "imported"
    /\ import_name = <<"a", "b", "c">>
    /\ allowed_imports = ListOf(<< <<"b">>, <<"a", "b">> >>)

(***************************************************************************)
(* CodeExecutor._restricted_open.  A path is the sequence of its           *)
(* components below the root directory: /data/sub/file.txt is              *)
(* <<"data", "sub", "file.txt">>.  The file system holds symbolic links    *)
(* [from |-> path, to |-> path] with absolute targets and no cycle.        *)
(***************************************************************************)

\* Bound: the number of components of a requested path.
MaxPathLen == 3

PathComponents == {"data", "data2", "sub", "file.txt", "link", ".."}
RequestedPaths == SeqsUpTo(PathComponents, MaxPathLen) \ {<< >>}

\* /data/link -> /data2 leaves the root /data, /data2/link -> /data/sub enters it.
SymlinkTables ==
    { {},
      { [from |-> <<"data", "link">>, to |-> <<"data2">>],
        [from |-> <<"data2", "link">>, to |-> <<"data", "sub">>] } }

\* The values of allowed_filesystem_paths and of allowed_file_modes.
AllowedRootLists == {<< >>, << <<"data">> >>, << <<"data2", "sub">>, <<"data">> >>}
FileModes == {<<"r">>, <<"r", "b">>, <<"r", "t">>, <<"r", "+">>, <<"r", "+", "b">>,
              <<"w">>, <<"w", "b">>}
AllowedModeLists == {<< >>, << <<"r">> >>, << <<"r", "b">>, <<"w">> >>}

\* ensure_all_absolute(paths): [] for None or an empty list, else the list
\* (every path of the model is absolute).
ensure_all_absolute(paths) == IF paths.is_none \/ paths.items = << >> THEN << >> ELSE paths.items

\* pathlib.Path(file).resolve(): the components are walked from the root; ".."
\* drops the last component, and a prefix that is a symbolic link is replaced
\* by the link's (resolved) target.
RECURSIVE Resolve(_, _, _)
Resolve(done, rest, links) ==
    IF rest = << >> THEN done
    ELSE IF Head(rest) = ".."
    THEN Resolve(IF done = << >> THEN << >> ELSE SubSeq(done, 1, Len(done) - 1),
                 Tail(rest), links)
    ELSE IF \E l \in links : l.from = Append(done, Head(rest))
    THEN Resolve(<< >>,
                 (CHOOSE l \in links : l.from = Append(done, Head(rest))).to \o Tail(rest),
                 links)
    ELSE Resolve(Append(done, Head(rest)), Tail(rest), links)

\* str.replace(ch, ''): every occurrence of the character removed.
RECURSIVE Remove(_, _)
Remove(mode, ch) ==
    IF mode = << >> THEN << >>
    ELSE IF Head(mode) = ch THEN Remove(Tail(mode), ch)
    ELSE <<Head(mode)>> \o Remove(Tail(mode), ch)

\* base_mode = mode.replace('+', '').replace('b', '').replace('t', '')
BaseMode(mode) == Remove(Remove(Remove(mode, "+"), "b"), "t")

\* Mutant of RelativeTo: the plain string prefix test
\* str(requested_path).startswith(allowed_path).
RelativeToByStringPrefix(requested_path, allowed_path) ==
    /\ Len(allowed_path) <= Len(requested_path)
    /\ \A n \in 1..(Len(allowed_path) - 1) : requested_path[n] = allowed_path[n]
    /\ allowed_path # << >> =>
          StrStartsWith(requested_path[Len(allowed_path)], allowed_path[Len(allowed_path)])

\* requested_path.relative_to(pathlib.Path(allowed_path)) does not raise: the
\* components of allowed_path are the first components of requested_path.
RECURSIVE RelativeTo(_, _)
RelativeTo(requested_path, allowed_path) ==
    IF allowed_path = << >> THEN TRUE
    ELSE IF requested_path = << >> THEN FALSE
    ELSE IF Head(requested_path) # Head(allowed_path) THEN FALSE
    ELSE RelativeTo(Tail(requested_path), Tail(allowed_path))

\* The for loop over self.allowed_filesystem_paths: path_allowed.
RECURSIVE PathAllowed(_, _)
PathAllowed(requested_path, allowed_paths) ==
    IF allowed_paths = << >> THEN FALSE
    ELSE IF RelativeTo(requested_path, Head(allowed_paths)) THEN TRUE
    ELSE PathAllowed(requested_path, Tail(allowed_paths))

\* _restricted_open(file, mode): "opened" when the call reaches open(file, mode),
\* or the PermissionError it raises.
_restricted_open(file, mode, allowed_paths, allowed_modes, links) ==
    IF allowed_paths = << >>
    THEN "PermissionError: File operations are not allowed in this environment"
    ELSE LET requested_path == Resolve(<< >>, file, links)
         IN  IF /\ ~allowed_modes.is_none
                /\ ~InList(mode, allowed_modes.items)
                /\ ~InList(BaseMode(mode), allowed_modes.items)
             THEN "PermissionError: File mode is not allowed"
             ELSE IF ~PathAllowed(requested_path, allowed_paths)
             THEN "PermissionError: Access is not allowed"
             ELSE "opened"

InitOpen ==
    /\ allowed_filesystem_paths \in {Unset} \cup {ListOf(l) : l \in AllowedRootLists}
    /\ allowed_file_modes \in {Unset} \cup {ListOf(l) : l \in AllowedModeLists}
    /\ symlinks \in SymlinkTables
    /\ open_file \in RequestedPaths
    /\ open_mode \in FileModes
    /\ open_result = "none"
    /\ AgentUnused /\ ExecutorUnused /\ ParseUnused /\ ImportUnused

RestrictedOpen ==
    /\ open_result = "none"
    /\ open_result' = _restricted_open(open_file, open_mode,
                                       ensure_all_absolute(allowed_filesystem_paths),
                                       allowed_file_modes, symlinks)
    /\ UNCHANGED <<allowed_filesystem_paths, allowed_file_modes, symlinks, open_file,
                   open_mode, agentVars, executorVars, parseVars, importVars>>

NextOpen == RestrictedOpen

SpecOpen == InitOpen /\ [][NextOpen]_vars

\* p is root itself or lies below it, component by component.
EqualOrDescendant(p, root) ==
    Len(root) <= Len(p) /\ \A n \in 1..Len(root) : p[n] = root[n]

\* The canonical form of the requested path lies in an allowed root.
CanonicalInRoot ==
    /\ ~allowed_filesystem_paths.is_none
    /\ \E k \in 1..Len(allowed_filesystem_paths.items) :
          EqualOrDescendant(Resolve(<< >>, open_file, symlinks),
                            allowed_filesystem_paths.items[k])

OnlyDataAllowed == allowed_filesystem_paths = ListOf(<< <<"data">> >>)

\* C8: the restricted open lets a request through only if the canonical form
\* of its path is equal to or a descendant (by components) of an allowed root.
\* With the single root /data it refuses /data2/file.txt, lets
\* /data/sub/file.txt through when the mode is allowed, and refuses a path
\* below /data that is a symbolic link leading out of /data.  With the roots
\* unset or empty it refuses every path.
C8_PathContainment ==
    open_result # "none" =>
        /\ open_result = "opened" => CanonicalInRoot
        /\ (allowed_filesystem_paths.is_none \/ allowed_filesystem_paths.items = << >>)
              => open_result # "opened"
        /\ (OnlyDataAllowed /\ open_file = <<"data2", "file.txt">>)
              => open_result # "opened"
        /\ (OnlyDataAllowed /\ open_file = <<"data", "sub", "file.txt">>
                /\ allowed_file_modes.is_none)
              => open_result = "opened"
        /\ (OnlyDataAllowed /\ symlinks # {}
                /\ open_file \in {<<"data", "link">>, <<"data", "link", "file.txt">>})
              => open_result # "opened"

\* Under the single root /data, with the link /data/link -> /data2 in place,
\* a request for /data/sub/file.txt was let through.
C8_Witness ==
    /\ OnlyDataAllowed
    /\ symlinks # {}
    /\ open_result = "opened"
    /\ open_file = <<"data", "sub", "file.txt">>

\* The path check alone would let the request through.
PathPermitted ==
    PathAllowed(Resolve(<< >>, open_file, symlinks),
                ensure_all_absolute(allowed_filesystem_paths))

\* C9: with the allowed file modes {"r"}, a request on an allowed path is let
\* through for the modes "rb" and "rt" and refused for the modes "w" and "r+".
C9_ModeNormalization ==
    (open_result # "none" /\ PathPermitted
        /\ allowed_file_modes = ListOf(<< <<"r">> >>))
    => /\ open_mode \in {<<"r", "b">>, <<"r", "t">>} => open_result = "opened"
       /\ open_mode \in {<<"w">>, <<"r", "+">>} => open_result # "opened"

(***************************************************************************)
(* CodeExecutor.execute.  A submission is a sequence of tokens: the        *)
(* statement tokens below (Python statements, each ending in ";"), the     *)
(* expression token, blanks and newlines.  Each token has the effect       *)
(* Python gives it in the sandbox namespace: print writes to the captured  *)
(* stream, x=5 binds x, print(x) and x+1 read x (NameError when unbound),  *)
(* len(1) raises TypeError, and the last one imports sys through the       *)
(* import hook and raises SystemExit.  Captured output is a sequence of    *)
(* characters.                                                             *)
(***************************************************************************)

\* Bound: self.max_output_size, the number of characters of output kept
\* (a constructor argument, 10000 by default).
max_output_size == 3

StatementTok ==
    {"print(1);", "x=5;", "print(x);", "len(1);", "__import__('sys').exit();",
     "y='a'*100000;"}
\* An expression whose evaluation prints and then raises SyntaxError: the
\* text handed to ast.parse does not parse.
ParsingExpression == "print(1) or __import__('ast').parse('(')"
ExpressionTok == {"x+1", ParsingExpression}

\* The empty namespace {}.
EmptyDict == [n \in {} |-> ""]

PythonTok == StatementTok \cup ExpressionTok

\* Token k starts a line of the text.
LineStart(code, k) == k = 1 \/ code[k - 1] = "\n"

\* Tokens i..j lie on one line.
SameLine(code, i, j) == \A m \in i..(j - 1) : code[m] # "\n"

\* compile(code, mode='exec') and ast.parse(code) do not raise SyntaxError:
\* every token is Python or whitespace, no line with a statement starts with a
\* blank (IndentationError), and an expression ends its line.
ExecCompiles(code) ==
    /\ \A k \in 1..Len(code) : code[k] \in PythonTok \cup WhitespaceTok
    /\ \A i, j \in 1..Len(code) :
          (i < j /\ code[i] = " " /\ LineStart(code, i) /\ SameLine(code, i, j))
          => code[j] \notin PythonTok
    /\ \A i, j \in 1..Len(code) :
          (i < j /\ code[i] \in ExpressionTok /\ SameLine(code, i, j))
          => code[j] \notin PythonTok

\* eval(code) compiles: after the leading blanks, which eval removes, the text
\* is one expression at the start of a line, followed by blanks on its line or
\* by whole lines.
EvalCompiles(code) ==
    \E j \in 1..Len(code) :
        /\ code[j] \in ExpressionTok
        /\ \A k \in 1..Len(code) : k # j => code[k] \in WhitespaceTok
        /\ \/ \A k \in 1..(j - 1) : code[k] = " "
           \/ (j > 1 /\ code[j - 1] = "\n")
        /\ (\E k \in (j + 1)..Len(code) : code[k] = "\n") => code[Len(code)] = "\n"

Running(locals, out) ==
    [status |-> "ok", error |-> "", result |-> "None", locals |-> locals, out |-> out]
Raising(status, error, locals, out) ==
    [status |-> status, error |-> error, result |-> "None", locals |-> locals, out |-> out]

\* A name of the submission is looked up in the locals, then in the globals.
Bound(name, locals, globals) == name \in DOMAIN locals \/ name \in DOMAIN globals
Lookup(name, locals, globals) ==
    IF name \in DOMAIN locals THEN locals[name] ELSE globals[name]

\* The value of x+1 for the values x takes in this model.
PlusOne(v) == CASE v = "5" -> "6" [] v = "7" -> "8"

\* exec(code, self.globals_dict, self.locals_dict): the statements run in
\* order against the namespace and the captured stream, up to the first one
\* that raises.  status is "ok", "Exception" (an exception that is an
\* Exception) or "SystemExit" (one that is not).
RECURSIVE Exec(_, _, _, _, _)
Exec(code, locals, globals, out, imports) ==
    IF code = << >> THEN Running(locals, out)
    ELSE CASE Head(code) = "print(1);" ->
                 Exec(Tail(code), locals, globals, out \o <<"1", "\n">>, imports)
           [] Head(code) = "x=5;" ->
                 Exec(Tail(code), ("x" :> "5") @@ locals, globals, out, imports)
           [] Head(code) = "print(x);" ->
                 IF Bound("x", locals, globals)
                 THEN Exec(Tail(code), locals, globals,
                           out \o <<Lookup("x", locals, globals), "\n">>, imports)
                 ELSE Raising("Exception", "name 'x' is not defined", locals, out)
           [] Head(code) = "y='a'*100000;" ->
                 Exec(Tail(code), ("y" :> "'a'*100000") @@ locals, globals, out, imports)
           [] Head(code) = "len(1);" ->
                 Raising("Exception", "object of type 'int' has no len()", locals, out)
           [] Head(code) = "__import__('sys').exit();" ->
                 IF _safe_import(<<"sys">>, imports) = "imported"
                 THEN Raising("SystemExit", "", locals, out)
                 ELSE Raising("Exception", "Import of 'sys' is not allowed", locals, out)
           [] Head(code) = "x+1" ->
                 IF Bound("x", locals, globals)
                 THEN Exec(Tail(code), locals, globals, out, imports)
                 ELSE Raising("Exception", "name 'x' is not defined", locals, out)
           [] Head(code) = ParsingExpression ->
                 IF _safe_import(<<"ast">>, imports) = "imported"
                 THEN Raising("Exception", "'(' was never closed (<unknown>, line 1)",
                              locals, out \o <<"1", "\n">>)
                 ELSE Raising("Exception", "Import of 'ast' is not allowed",
                              locals, out \o <<"1", "\n">>)
           [] OTHER -> Exec(Tail(code), locals, globals, out, imports)

\* eval(code, self.globals_dict, self.locals_dict) of the one expression of
\* code.  status "SyntaxError" is a SyntaxError raised while the expression
\* is evaluated.
Eval(code, locals, globals, out, imports) ==
    IF \E k \in 1..Len(code) : code[k] = ParsingExpression
    THEN IF _safe_import(<<"ast">>, imports) = "imported"
         THEN Raising("SyntaxError", "'(' was never closed (<unknown>, line 1)",
                      locals, out \o <<"1", "\n">>)
         ELSE Raising("Exception", "Import of 'ast' is not allowed",
                      locals, out \o <<"1", "\n">>)
    ELSE IF Bound("x", locals, globals)
    THEN [Running(locals, out) EXCEPT !.result = PlusOne(Lookup("x", locals, globals))]
    ELSE Raising("Exception", "name 'x' is not defined", locals, out)

\* try: result = eval(code, ...)
\* except SyntaxError: exec(code, ...)
\* The handler catches a SyntaxError of the evaluation as it catches one of
\* the compilation: exec then runs the code on the namespace and the streams
\* as the evaluation left them.
EvalOrExec(code, locals, globals, imports) ==
    IF EvalCompiles(code)
    THEN LET ev == Eval(code, locals, globals, << >>, imports)
         IN  IF ev.status # "SyntaxError" THEN ev
             ELSE IF ~ExecCompiles(code)
             THEN Raising("Exception", "invalid syntax", ev.locals, ev.out)
             ELSE Exec(code, ev.locals, globals, ev.out, imports)
    ELSE IF ~ExecCompiles(code)
    THEN Raising("Exception", "invalid syntax", locals, << >>)
    ELSE Exec(code, locals, globals, << >>, imports)

\* if len(output) > self.max_output_size:
\*     output = output[:self.max_output_size] + "\n... (output truncated)"
Truncate(output) ==
    IF Len(output) > max_output_size
    THEN SubSeq(output, 1, max_output_size) \o <<"\n... (output truncated)">>
    ELSE output

ExecutionRecord(success, output, result, error, traceback) ==
    [success |-> success, output |-> output, result |-> result, error |-> error,
     traceback |-> traceback]

\* What one call of execute leaves: the record it returns (when raised is
\* FALSE), the namespace, the history, and whether the call raised instead of
\* returning.
Executed(record, locals, history, raised_exc) ==
    [record |-> record, locals |-> locals, history |-> history, raised |-> raised_exc]

\* _execute_in_thread(code)
_execute_in_thread(code, locals, globals, history, imports) ==
    IF ~ExecCompiles(code)
    THEN LET record == ExecutionRecord(FALSE, << >>, "None", "invalid syntax",
                                       "traceback")
         IN  Executed(record, locals, Append(history, [code |-> code, result |-> record]),
                      FALSE)
    ELSE LET run == EvalOrExec(code, locals, globals, imports)
             record ==
                 IF run.status = "ok"
                 THEN ExecutionRecord(TRUE, Truncate(run.out), run.result, "None", "None")
                 ELSE ExecutionRecord(FALSE, run.out, "None", run.error, "traceback")
         IN  IF run.status = "SystemExit"
             THEN Executed(record, run.locals, history, TRUE)
             ELSE Executed(record, run.locals,
                           Append(history, [code |-> code, result |-> record]), FALSE)

\* The values whose pickle is larger than the buffer of the queue's pipe.
LargeValues == {"'a'*100000"}

\* The item put on the queue fits the buffer of the pipe: the feeder thread of
\* the worker's queue can write all of it without a reader.
FitsPipe(item) == \A name \in DOMAIN item.locals : item.locals[name] \notin LargeValues

\* The values pickle refuses: a lambda, unlike a function defined at module
\* level, has no importable name.
Unpicklable == {"lambda"}

\* The feeder thread of the worker's queue can pickle the item of queue.put,
\* which carries the worker's globals and locals.  An item it cannot pickle
\* is dropped: nothing reaches the pipe.
Pickles(globals, locals) ==
    /\ \A name \in DOMAIN globals : globals[name] \notin Unpicklable
    /\ \A name \in DOMAIN locals : locals[name] \notin Unpicklable

\* The outcome of _execute_in_process once the worker's run is known.  A
\* worker whose item does not fit the pipe never ends by itself, so the wait
\* times out; a worker whose item is dropped, or that left through an exit
\* request, leaves the queue empty.
ProcessOutcome(run, locals, globals, history, timed_out) ==
    IF timed_out
       \/ (run.status # "SystemExit" /\ Pickles(globals, run.locals)
              /\ ~FitsPipe([locals |-> run.locals]))
    THEN Executed(ExecutionRecord(FALSE, << >>, "None", "Execution timed out", "None"),
                  locals, history, FALSE)
    ELSE IF run.status = "SystemExit" \/ ~Pickles(globals, run.locals)
    THEN Executed(ExecutionRecord(FALSE, << >>, "None",
                                  "Failed to retrieve execution results", "traceback"),
                  locals, history, FALSE)
    ELSE IF run.status = "ok"
    THEN Executed(ExecutionRecord(TRUE, run.out, run.result, "None", "None"),
                  run.locals @@ locals, history, FALSE)
    ELSE Executed(ExecutionRecord(FALSE, run.out, "None", run.error, "traceback"),
                  locals, history, FALSE)

\* _execute_in_process(code), as one step.  The worker runs the submission on
\* a deep copy of the namespace; timed_out says that the worker is still alive
\* when process.join(timeout) returns.
_execute_in_process(code, locals, globals, history, imports, timed_out) ==
    ProcessOutcome(EvalOrExec(code, locals, globals, imports), locals, globals,
                   history, timed_out)

\* execute(code)
execute(code, multiprocess, locals, globals, history, imports, timed_out) ==
    IF multiprocess
    THEN _execute_in_process(code, locals, globals, history, imports, timed_out)
    ELSE _execute_in_thread(code, locals, globals, history, imports)


(***************************************************************************)
(* Spec: one call of CodeActAgent.run_agentic_loop on a new agent.  pc is  *)
(* the position of the call: "constructed" before it, "loop" at the top of *)
(* the while loop, "awaiting" while the model request is outstanding,      *)
(* "returned" once it has returned final_response and "raised" once an     *)
(* exception has left it (raised names the exception).  requests counts    *)
(* the calls of llm_client.send_request.  response and parsed hold the     *)
(* last assistant message and what _parse_response made of it; batch,      *)
(* sandbox_calls, block_results, agg_code_output and iter_before record    *)
(* the last dispatch of a code batch: the blocks, the indices passed to    *)
(* execute in call order, what each call gave, the value of the local      *)
(* agg_code_output when the for loop was left, and the turn counter        *)
(* before the dispatch.                                                    *)
(***************************************************************************)

\* Bound: self.max_iteration (10 in the source, an attribute of the agent).
max_iteration == 3

\* The blocks of the messages below.
OkBlock == <<"print(1);">>
BindingBlock == <<"x=5;", "print(x);">>
FailingBlock == <<"len(1);">>
LongOutputBlock == <<"print(1);", "\n", "print(1);">>
ExpressionBlock == <<"x+1">>
PartialOutputBlock == <<"print(1);", "len(1);">>
ExitBlock == <<"__import__('sys').exit();">>

RECURSIVE CodeMessage(_)
CodeMessage(blocks) ==
    IF blocks = << >> THEN << >>
    ELSE <<"<code>">> \o Head(blocks) \o <<"</code>", "\n">> \o CodeMessage(Tail(blocks))

\* The assistant messages the model client returns in this specification:
\* response.choices[0].message.content, a text or None.
Messages ==
    { <<"<response>", "a", "</response>">>,
      <<"a">>,
      <<"<CODE>">> \o OkBlock \o <<"</CODE>", "<response>", "a", "</response>">>,
      CodeMessage(<<OkBlock>>),
      CodeMessage(<<BindingBlock, FailingBlock, OkBlock>>),
      CodeMessage(<<LongOutputBlock, ExpressionBlock>>),
      CodeMessage(<<PartialOutputBlock, OkBlock>>),
      CodeMessage(<<ExitBlock>>),
      None }

UserQueries == {"user_query"}
WorkingCopies == {"", "/workspace/out.csv"}


Turn(role, content) == [role |-> role, content |-> content]

\* The decoration lines
\*   "- Last Working Copy: {path or None}" and "\n- RUN {n}/{self.max_iteration}"
\* where path is what _get_last_working_copy_abs_path() returns ("" when the
\* workspace holds no file).
Decoration(path, n) ==
    <<"- Last Working Copy: ", IF path = "" THEN "None" ELSE path,
      "\n- RUN ", ToString(n), "/", ToString(max_iteration)>>

\* user_query + "\n" + decoration
QueryTurn(user_query, path, n) ==
    Turn("user", <<user_query, "\n">> \o Decoration(path, n))

\* f"**ERROR**:\n{e}\n\n" + decoration
ErrorTurn(e, path, n) ==
    Turn("user", <<"**ERROR**:\n">> \o e \o <<"\n", "\n">> \o Decoration(path, n))

\* f"Below is the output of your code:\n{agg_code_output}\n\n" + decoration
OutputTurn(output, path, n) ==
    Turn("user", <<"Below is the output of your code:\n">> \o output \o <<"\n", "\n">>
                 \o Decoration(path, n))

\* f"Output of Code Block {idx+1}:\n{executor_output['output']}\n\n"
\* (idx is the 1-based index here).
BlockOutput(idx, output) ==
    <<"Output of Code Block ", ToString(idx), ":", "\n">> \o output \o <<"\n", "\n">>

\* The exception raised for a failure result:
\* f"Code Caused the following ERROR:\n{error}\n\nTraceback:\n{traceback}"
BlockError(record) ==
    <<"Code Caused the following ERROR:\n", record.error, "\n\nTraceback:\n",
      record.traceback>>

\* The state of the for loop over the blocks before its first pass.
BatchStart(locals, globals, history) ==
    [locals |-> locals, globals |-> globals, history |-> history, agg |-> << >>, calls |-> << >>,
     results |-> << >>, outcome |-> "success", error |-> << >>]

\* for idx, code_block in enumerate(parsed_response_list): the passes from
\* block idx on.  outcome is "success" when the loop ran to its end, "error"
\* when a block gave a failure result (the loop breaks) and "SystemExit" when
\* execute raised it.  timeouts[idx] says that the worker of block idx
\* outlives the timeout (subprocess mode).
RECURSIVE RunBatch(_, _, _, _, _, _)
RunBatch(blocks, idx, timeouts, multiprocess, imports, st) ==
    IF idx > Len(blocks) THEN st
    ELSE LET e == execute(blocks[idx], multiprocess, st.locals, st.globals, st.history, imports,
                          timeouts[idx])
             called == [st EXCEPT !.locals = e.locals, !.history = e.history,
                                  !.calls = Append(@, idx)]
         IN  IF e.raised
             THEN [called EXCEPT !.outcome = "SystemExit",
                                 !.results = Append(@, [outcome |-> "raised",
                                                        output |-> << >>])]
             ELSE IF e.record.success
             THEN RunBatch(blocks, idx + 1, timeouts, multiprocess, imports,
                           [called EXCEPT
                               !.agg = @ \o BlockOutput(idx, e.record.output),
                               !.results = Append(@, [outcome |-> "success",
                                                      output |-> e.record.output])])
             ELSE [called EXCEPT !.outcome = "error",
                                 !.error = BlockError(e.record),
                                 !.results = Append(@, [outcome |-> "failure",
                                                        output |-> e.record.output])]


Init ==
    /\ chat_history = <<SystemTurn>>
    /\ iteration_num = 0
    /\ final_response = << >>
    /\ pc = "constructed"
    /\ requests = 0
    /\ raised = ""
    /\ iter_before = 0
    /\ batch = << >>
    /\ sandbox_calls = << >>
    /\ block_results = << >>
    /\ agg_code_output = << >>
    /\ last_working_copy \in WorkingCopies
    /\ use_multiprocessing \in BOOLEAN
    /\ locals_dict = EmptyDict
    /\ execution_history = << >>
    /\ globals_dict = EmptyDict
    /\ SandboxGhostUnused
    /\ allowed_imports \in {Unset, ListOf(<< >>)}
    /\ import_name = << >>
    /\ import_result = "none"
    /\ ParseUnused /\ OpenUnused

configVars == <<last_working_copy, use_multiprocessing, allowed_imports, import_name,
                import_result, codes, openVars>>
dispatchVars == <<iter_before, batch, sandbox_calls, block_results, agg_code_output>>
sandboxGhostVars == <<globals_dict, call_log, last_call, process, streams>>
sandboxVars == <<locals_dict, execution_history, sandboxGhostVars>>

\* run_agentic_loop(user_query), up to the while loop.
RunAgenticLoop ==
    /\ pc = "constructed"
    /\ \E user_query \in UserQueries :
          chat_history' = Append(chat_history,
                                 QueryTurn(user_query, last_working_copy, 0 + 1))
    /\ iteration_num' = 0
    /\ final_response' = << >>
    /\ pc' = "loop"
    /\ UNCHANGED <<requests, raised, response, parsed, dispatchVars, sandboxVars,
                   configVars>>

\* if self.iteration_num == self.max_iteration: break; then return final_response
BreakAtLimit ==
    /\ pc = "loop"
    /\ iteration_num = max_iteration
    /\ pc' = "returned"
    /\ UNCHANGED <<chat_history, iteration_num, final_response, requests, raised,
                   response, parsed, dispatchVars, sandboxVars, configVars>>

\* response = await self._get_response(**kwargs): the request is sent.
GetResponse ==
    /\ pc = "loop"
    /\ iteration_num # max_iteration
    /\ requests' = requests + 1
    /\ pc' = "awaiting"
    /\ UNCHANGED <<chat_history, iteration_num, final_response, raised, response,
                   parsed, dispatchVars, sandboxVars, configVars>>

\* The variant of RequestFails in which the loop sends the request again.
RequestFailsAndIsRetried ==
    /\ pc = "awaiting"
    /\ requests < max_iteration
    /\ raised' = "TransportError"
    /\ requests' = requests + 1
    /\ UNCHANGED <<pc, chat_history, iteration_num, final_response, response, parsed,
                   dispatchVars, sandboxVars, configVars>>

\* await self.llm_client.send_request(...) raises (a transport or provider
\* error): nothing in _get_response or run_agentic_loop catches it.
RequestFails ==
    /\ pc = "awaiting"
    /\ raised' = "TransportError"
    /\ pc' = "raised"
    /\ UNCHANGED <<chat_history, iteration_num, final_response, requests, response,
                   parsed, dispatchVars, sandboxVars, configVars>>

\* The message has no text: the assistant turn is appended and
\* len(response.choices[0].message.content) raises TypeError outside the try.
ReceiveNone ==
    /\ pc = "awaiting"
    /\ \E msg \in Messages :
          /\ msg = None
          /\ response' = msg
          /\ chat_history' = Append(chat_history, Turn("assistant", msg))
    /\ parsed' = NotParsed
    /\ raised' = "TypeError"
    /\ pc' = "raised"
    /\ UNCHANGED <<iteration_num, final_response, requests, dispatchVars, sandboxVars,
                   configVars>>

\* The variant of ReceiveMalformed that appends the error turn alone.
ReceiveMalformedUserTurnOnly ==
    /\ pc = "awaiting"
    /\ \E msg \in Messages \ {None} :
          /\ _parse_response(msg).type = "ValueError"
          /\ response' = msg
          /\ parsed' = _parse_response(msg)
          /\ iteration_num' = iteration_num + 1
          /\ chat_history' =
                Append(chat_history,
                       ErrorTurn(_parse_response(msg).contents, last_working_copy,
                                 iteration_num' + 1))
    /\ pc' = "loop"
    /\ UNCHANGED <<final_response, requests, raised, dispatchVars, sandboxVars,
                   configVars>>

\* _parse_response raises ValueError: except ValueError.
ReceiveMalformed ==
    /\ pc = "awaiting"
    /\ \E msg \in Messages \ {None} :
          /\ _parse_response(msg).type = "ValueError"
          /\ response' = msg
          /\ parsed' = _parse_response(msg)
          /\ iteration_num' = iteration_num + 1
          /\ chat_history' =
                chat_history \o
                <<Turn("assistant", msg),
                  ErrorTurn(_parse_response(msg).contents, last_working_copy,
                            iteration_num' + 1)>>
    /\ pc' = "loop"
    /\ UNCHANGED <<final_response, requests, raised, dispatchVars, sandboxVars,
                   configVars>>

\* The variant of ReceiveAnswer that counts the terminal answer as a turn.
ReceiveAnswerCounted ==
    /\ pc = "awaiting"
    /\ \E msg \in Messages \ {None} :
          /\ _parse_response(msg).type = "text"
          /\ response' = msg
          /\ parsed' = _parse_response(msg)
          /\ final_response' = JoinLines(_parse_response(msg).contents)
          /\ chat_history' = Append(chat_history, Turn("assistant", msg))
    /\ iteration_num' = iteration_num + 1
    /\ pc' = "returned"
    /\ UNCHANGED <<requests, raised, dispatchVars, sandboxVars, configVars>>

\* response_type "text": final_response = "\n".join(...); break; return.
ReceiveAnswer ==
    /\ pc = "awaiting"
    /\ \E msg \in Messages \ {None} :
          /\ _parse_response(msg).type = "text"
          /\ response' = msg
          /\ parsed' = _parse_response(msg)
          /\ final_response' = JoinLines(_parse_response(msg).contents)
          /\ chat_history' = Append(chat_history, Turn("assistant", msg))
    /\ pc' = "returned"
    /\ UNCHANGED <<iteration_num, requests, raised, dispatchVars, sandboxVars,
                   configVars>>


\* The worker of a block can outlive the timeout in subprocess mode only.
Timeouts(blocks, multiprocess) ==
    IF multiprocess THEN [1..Len(blocks) -> BOOLEAN]
    ELSE {[k \in 1..Len(blocks) |-> FALSE]}

\* response_type "code": the blocks are executed in order.  A failure result
\* ends the batch with an error turn, a SystemExit raised by execute leaves
\* run_agentic_loop, and a batch that ran to its end gives the output turn.
ReceiveCode ==
    /\ pc = "awaiting"
    /\ \E msg \in Messages \ {None} :
          /\ _parse_response(msg).type = "code"
          /\ response' = msg
          /\ parsed' = _parse_response(msg)
          /\ batch' = _parse_response(msg).contents
          /\ \E timeouts \in Timeouts(batch', use_multiprocessing) :
                \E run \in {RunBatch(batch', 1, timeouts, use_multiprocessing,
                                     allowed_imports,
                                     BatchStart(locals_dict, globals_dict,
                                                execution_history))} :
                    /\ locals_dict' = run.locals
                    /\ execution_history' = run.history
                    /\ sandbox_calls' = run.calls
                    /\ block_results' = run.results
                    /\ agg_code_output' = run.agg
                    /\ iteration_num' =
                          IF run.outcome = "SystemExit" THEN iteration_num
                          ELSE iteration_num + 1
                    /\ chat_history' =
                          chat_history \o <<Turn("assistant", msg)>> \o
                          (CASE run.outcome = "SystemExit" -> << >>
                             [] run.outcome = "error" ->
                                   <<ErrorTurn(run.error, last_working_copy,
                                               iteration_num' + 1)>>
                             [] OTHER ->
                                   <<OutputTurn(Strip(run.agg), last_working_copy,
                                                iteration_num' + 1)>>)
                    /\ raised' = IF run.outcome = "SystemExit" THEN "SystemExit"
                                 ELSE raised
                    /\ pc' = IF run.outcome = "SystemExit" THEN "raised" ELSE "loop"
    /\ iter_before' = iteration_num
    /\ UNCHANGED <<final_response, requests, configVars, sandboxGhostVars>>

Next ==
    \/ RunAgenticLoop
    \/ BreakAtLimit
    \/ GetResponse
    \/ RequestFails
    \/ ReceiveNone
    \/ ReceiveMalformed
    \/ ReceiveAnswer
    \/ ReceiveCode

Spec == Init /\ [][Next]_vars

\* The call runs on: a step that is possible is taken.
FairSpec == Spec /\ WF_vars(Next)


\* The run is over: run_agentic_loop has returned or an exception has left it.
RunOver == pc \in {"returned", "raised"}

\* The run ended in the aborted state: it returned at the turn limit with an
\* empty result and without a terminal answer.
Aborted ==
    /\ pc = "returned"
    /\ parsed.type # "text"
    /\ iteration_num = max_iteration
    /\ final_response = << >>

\* C1 (request budget).  In one call of run_agentic_loop the number of model
\* requests never exceeds max_iteration, and a run in which every request was
\* answered and the model gave no terminal answer ends in the aborted state
\* after exactly max_iteration requests.
C1_RequestBudget ==
    /\ requests <= max_iteration
    /\ (RunOver /\ raised # "TransportError" /\ parsed.type # "text")
          => (Aborted /\ requests = max_iteration)

\* C2 (termination).  Provided every model request and every execute call
\* returns (no request fails, no SystemExit leaves execute), the run eventually ends, in a
\* terminal answer or in the aborted state.
C2_Terminates ==
    <>(\/ raised \in {"SystemExit", "TransportError"}
       \/ (pc = "returned" /\ parsed.type = "text")
       \/ Aborted)

\* C3 (turn counter).  In every step of a run the turn counter stays in
\* 0..max_iteration and does not decrease; the step that resolves a model
\* message without a terminal answer adds exactly 1 to it, and no other step
\* changes it.
C3_TurnCounter ==
    [][/\ iteration_num' \in 0..max_iteration
       /\ iteration_num' >= iteration_num
       /\ (pc = "awaiting" /\ pc' # "awaiting" /\ raised' # "TransportError"
              /\ parsed'.type # "text")
             => iteration_num' = iteration_num + 1
       /\ ~(pc = "awaiting" /\ pc' # "awaiting")
             => iteration_num' = iteration_num]_vars

\* The labelled outputs of blocks 1..n of a batch, as agg_code_output
\* accumulates them.
RECURSIVE LabelledOutputs(_, _)
LabelledOutputs(results, n) ==
    IF n = 0 THEN << >>
    ELSE LabelledOutputs(results, n - 1) \o BlockOutput(n, results[n].output)

\* C4 (fail-fast batches).  After the dispatch of a batch: the blocks passed
\* to the sandbox are blocks 1..k in order, each once; every block before k
\* succeeded and the batch stops short of its end only at a failing block;
\* when block k failed, the aggregated output is the labelled outputs of the
\* blocks before k, and the turn counter is 1 more than before the dispatch.
C4_FailFast ==
    parsed.type = "code" =>
        LET k == Len(sandbox_calls)
        IN  /\ k \in 1..Len(batch)
            /\ Len(block_results) = k
            /\ \A i \in 1..k : sandbox_calls[i] = i
            /\ \A i \in 1..(k - 1) : block_results[i].outcome = "success"
            /\ block_results[k].outcome = "success" => k = Len(batch)
            /\ block_results[k].outcome # "success" =>
                  /\ agg_code_output = LabelledOutputs(block_results, k - 1)
                  /\ iteration_num = iter_before + 1


(***************************************************************************)
(* The restriction lists: unset (None) against empty.                      *)
(***************************************************************************)

\* The refusals of _restricted_open that rest on the allowed directories.
PathRefusals ==
    {"PermissionError: File operations are not allowed in this environment",
     "PermissionError: Access is not allowed"}

\* C11 (unset is unrestricted, empty permits nothing).  For each of the three
\* restriction lists: when the list is unset no request is refused on its
\* account (with the directories and the modes both unset every open goes
\* through, and with the imports unset every import does), and when the list
\* is empty every request is refused.
C11_UnsetVersusEmpty ==
    /\ open_result # "none" =>
          /\ allowed_filesystem_paths = Unset => open_result \notin PathRefusals
          /\ allowed_file_modes = Unset =>
                open_result # "PermissionError: File mode is not allowed"
          /\ (allowed_filesystem_paths = Unset /\ allowed_file_modes = Unset)
                => open_result = "opened"
          /\ allowed_filesystem_paths = ListOf(<< >>) => open_result # "opened"
          /\ allowed_file_modes = ListOf(<< >>) => open_result # "opened"
    /\ import_result # "none" =>
          /\ allowed_imports = Unset => import_result = "imported"
          /\ allowed_imports = ListOf(<< >>) => import_result = "ImportError"


(***************************************************************************)
(* SpecExec: the operations execute, reset_state and set_variable on one   *)
(* CodeExecutor, in any order.  call_log lists the execute calls that      *)
(* returned since the last reset_state, with the results they returned;    *)
(* last_call describes the last operation: for an execute call the         *)
(* submission, the locals before the call, whether the worker outlived the *)
(* timeout, and the result returned or the fact that the call raised.      *)
(***************************************************************************)

\* Bound: the number of operations on the sandbox in one behaviour.
MaxCalls == 3

\* The submissions passed to execute.
Submissions ==
    { <<"x=5;">>,
      <<"x+1">>,
      <<"print(x);">>,
      <<"x=5;", "len(1);">>,
      <<"print(1);", "\n", "print(1);">>,
      <<" ", "x+1">>,
      <<"print(1);", "x+1", "x=5;">>,
      <<ParsingExpression>>,
      <<"__import__('sys').exit();">> }

\* The callables handed to the sandbox: a function defined at module level
\* and a lambda.
Functions == {"function", "lambda"}
FunctionNames == {"f"}

\* predefined_functions of the constructor, as bound in self.globals_dict.
PredefinedFunctions ==
    {EmptyDict} \cup {name :> func : name \in FunctionNames, func \in Functions}

\* The names and values given to set_variable.
VariableNames == {"x"}
VariableValues == {"7"}

InitExec ==
    /\ use_multiprocessing \in BOOLEAN
    /\ allowed_imports \in {Unset, ListOf(<< >>)}
    /\ locals_dict = EmptyDict
    /\ globals_dict \in PredefinedFunctions
    /\ execution_history = << >>
    /\ SandboxGhostUnused
    /\ import_name = << >>
    /\ import_result = "none"
    /\ AgentUnused /\ ParseUnused /\ OpenUnused

\* execute(code)
Execute ==
    /\ last_call.n < MaxCalls
    /\ \E code \in Submissions :
       \E timed_out \in IF use_multiprocessing THEN BOOLEAN ELSE {FALSE} :
          LET e == execute(code, use_multiprocessing, locals_dict, globals_dict,
                           execution_history, allowed_imports, timed_out)
          IN  /\ locals_dict' = e.locals
              /\ execution_history' = e.history
              /\ call_log' = IF e.raised THEN call_log
                             ELSE Append(call_log, [code |-> code, result |-> e.record])
              /\ last_call' = [op |-> "execute", n |-> last_call.n + 1, code |-> code,
                               locals_before |-> locals_dict, timed_out |-> timed_out,
                               after_reset |-> last_call.op = "reset_state",
                               raised |-> e.raised, result |-> e.record]
    /\ UNCHANGED <<use_multiprocessing, globals_dict, process, streams, allowed_imports,
                   import_name, import_result, agentVars, parseVars, openVars>>

\* self._create_safe_globals(), without its "__" entries.
FreshGlobals == EmptyDict

\* Mutant of ResetState: the locals survive the reset.
ResetStateKeepingLocals ==
    /\ last_call.n < MaxCalls
    /\ globals_dict' = FreshGlobals
    /\ execution_history' = << >>
    /\ call_log' = << >>
    /\ last_call' = [op |-> "reset_state", n |-> last_call.n + 1]
    /\ UNCHANGED <<use_multiprocessing, locals_dict, process, streams, allowed_imports,
                   import_name, import_result, agentVars, parseVars, openVars>>

\* reset_state()
ResetState ==
    /\ last_call.n < MaxCalls
    /\ globals_dict' = FreshGlobals
    /\ locals_dict' = EmptyDict
    /\ execution_history' = << >>
    /\ call_log' = << >>
    /\ last_call' = [op |-> "reset_state", n |-> last_call.n + 1]
    /\ UNCHANGED <<use_multiprocessing, process, streams, allowed_imports, import_name,
                   import_result, agentVars, parseVars, openVars>>

\* set_variable(name, value)
SetVariable ==
    /\ last_call.n < MaxCalls
    /\ \E name \in VariableNames, value \in VariableValues :
          /\ globals_dict' = (name :> value) @@ globals_dict
          /\ last_call' = [op |-> "set_variable", n |-> last_call.n + 1,
                           name |-> name, value |-> value]
    /\ UNCHANGED <<use_multiprocessing, locals_dict, execution_history, call_log,
                   process, streams, allowed_imports, import_name, import_result, agentVars,
                   parseVars, openVars>>

\* add_function(name, func)
AddFunction ==
    /\ last_call.n < MaxCalls
    /\ \E name \in FunctionNames, func \in Functions :
          /\ globals_dict' = (name :> func) @@ globals_dict
          /\ last_call' = [op |-> "add_function", n |-> last_call.n + 1,
                           name |-> name, value |-> func]
    /\ UNCHANGED <<use_multiprocessing, locals_dict, execution_history, call_log,
                   process, streams, allowed_imports, import_name, import_result, agentVars,
                   parseVars, openVars>>

\* The default handed to get_variable.
Default == "default"

\* get_variable(name, default): the local binding, else the global one, else
\* the default.  after_set holds the value of a set_variable(name, value) that
\* was the operation just before.
get_variable(name, default, locals, globals) ==
    IF name \in DOMAIN locals THEN locals[name]
    ELSE IF name \in DOMAIN globals THEN globals[name]
    ELSE default

GetVariable ==
    /\ last_call.n < MaxCalls
    /\ \E name \in VariableNames \cup FunctionNames :
          last_call' = [op |-> "get_variable", n |-> last_call.n + 1, name |-> name,
                        after_set |-> IF last_call.op = "set_variable"
                                         /\ last_call.name = name
                                      THEN <<last_call.value>> ELSE << >>,
                        result |-> get_variable(name, Default, locals_dict,
                                                globals_dict)]
    /\ UNCHANGED <<use_multiprocessing, locals_dict, execution_history, globals_dict,
                   call_log, process, streams, allowed_imports, import_name,
                   import_result, agentVars, parseVars, openVars>>

NextExec == Execute \/ ResetState \/ SetVariable \/ AddFunction \/ GetVariable

SpecExec == InitExec /\ [][NextExec]_vars

\* C12 (history).  After any sequence of operations the execution history
\* lists, in call order, the submissions of the execute calls that returned
\* since the last reset_state, each with the result that was returned: every
\* such call, in either mode and whatever its outcome, added exactly one entry.
C12_HistoryComplete == execution_history = call_log


\* Entry i of call_log is a successful call whose submission assigns x.
BindsX(i) == call_log[i].result.success /\ InList("x=5;", call_log[i].code)

\* The last operation is an execute call of a submission that reads x, and
\* its worker did not outlive the timeout.
LastCallReadsX ==
    /\ last_call.op = "execute"
    /\ last_call.code \in {<<"x+1">>, <<"print(x);">>}
    /\ ~last_call.timed_out

\* C13 (namespace persistence).  A binding made by a successful execute call
\* stays in the namespace for every later call until reset_state: x+1,
\* executed after a successful x=5, gives 6.  After reset_state the locals
\* and the history are empty and the globals are the fresh builtin set; a
\* submission that reads x, executed next, fails with the undefined-name
\* error.
C13_Persistence ==
    /\ (\E i \in 1..Len(call_log) : BindsX(i))
          => ("x" \in DOMAIN locals_dict /\ locals_dict["x"] = "5")
    /\ (/\ LastCallReadsX
        /\ last_call.code = <<"x+1">>
        /\ \E i \in 1..(Len(call_log) - 1) : BindsX(i))
          => (/\ ~last_call.raised
              /\ last_call.result.success
              /\ last_call.result.result = "6")
    /\ last_call.op = "reset_state"
          => (/\ locals_dict = EmptyDict
              /\ globals_dict = FreshGlobals
              /\ execution_history = << >>)
    /\ (LastCallReadsX /\ last_call.after_reset)
          => (/\ ~last_call.raised
              /\ ~last_call.result.success
              /\ last_call.result.error = "name 'x' is not defined")

\* x = 5 was executed, and a later call of x + 1 gave 6.
C13_Witness ==
    /\ LastCallReadsX
    /\ last_call.code = <<"x+1">>
    /\ \E i \in 1..(Len(call_log) - 1) : BindsX(i)
    /\ last_call.result.result = "6"


\* The last operation is an execute call that returned the failure of len(1),
\* raised after the submission had assigned x.
FailedAfterAssigning ==
    /\ last_call.op = "execute"
    /\ ~last_call.raised
    /\ ~last_call.result.success
    /\ last_call.result.error = "object of type 'int' has no len()"
    /\ \E i, j \in 1..Len(last_call.code) :
          i < j /\ last_call.code[i] = "x=5;" /\ last_call.code[j] = "len(1);"

\* C14 (no rollback).  When a submission fails after having assigned x, the
\* binding is in the sandbox namespace once execute has returned, in both
\* modes.
C14_NoRollback ==
    FailedAfterAssigning => ("x" \in DOMAIN locals_dict /\ locals_dict["x"] = "5")


\* C15 (errors are returned, not raised).  No execute call raises: whatever
\* the submission raised (syntax error, runtime fault, denied import, exit
\* request), the call returns a result with success false that carries an
\* error message and a trace; and no exit request of a submission ends the
\* agent loop.
C15_NeverPropagates ==
    /\ last_call.op = "execute" =>
          /\ ~last_call.raised
          /\ (~last_call.result.success /\ ~last_call.timed_out)
                => (/\ last_call.result.error # "None"
                    /\ last_call.result.traceback # "None")
    /\ raised # "SystemExit"


(***************************************************************************)
(* SpecProc: one execute call in subprocess mode, step by step.  The       *)
(* parent (_execute_in_process) starts the worker, waits in                *)
(* process.join(timeout), tests process.is_alive(), and either terminates  *)
(* and joins the worker or reads the queue.  The worker runs the           *)
(* submission, puts its result on the queue and exits; a submission that   *)
(* loops for ever never gets there, and one that has set SIGTERM to be     *)
(* ignored survives process.terminate().  process holds the parent's       *)
(* position, the worker's state ("running", "put" once the result is on    *)
(* the queue, "exited", "terminated"), the queue, whether is_alive() was   *)
(* true, whether a join has returned for the worker (it is reaped), and    *)
(* whether the worker put its result while the parent was still in         *)
(* process.join(timeout) (in_time).                                        *)
(***************************************************************************)

\* Submissions that never terminate; the second one first sets SIGTERM
\* (signal 15) to be ignored (handler 1, SIG_IGN).
LoopsForever == <<"while True: pass">>
LoopsIgnoringSIGTERM ==
    <<"__import__('signal').signal(15, 1);", "\n", "while True: pass">>

ProcSubmissions ==
    { <<"x=5;">>,
      <<"x=5;", "len(1);">>,
      <<"print(1);", "\n", "print(1);">>,
      <<"x+1">>,
      <<"y='a'*100000;">>,
      <<"__import__('sys').exit();">>,
      LoopsForever,
      LoopsIgnoringSIGTERM }

\* The import of signal goes through _safe_import, as every import does.
SignalImported(imports) == _safe_import(<<"signal">>, imports) = "imported"

Terminates(code, imports) ==
    /\ code # LoopsForever
    /\ code = LoopsIgnoringSIGTERM => ~SignalImported(imports)

\* What the worker's eval/exec of a terminating submission gives.
WorkerRun(code, locals, globals, imports) ==
    IF code = LoopsIgnoringSIGTERM
    THEN Raising("Exception", "Import of 'signal' is not allowed", locals, << >>)
    ELSE EvalOrExec(code, locals, globals, imports)

Alive(worker) == worker \in {"running", "put"}

InitProc ==
    /\ use_multiprocessing = TRUE
    /\ allowed_imports \in {Unset, ListOf(<< >>)}
    /\ locals_dict \in {EmptyDict, "x" :> "5"}
    /\ globals_dict \in PredefinedFunctions
    /\ execution_history = << >>
    /\ SandboxGhostUnused
    /\ import_name = << >>
    /\ import_result = "none"
    /\ AgentUnused /\ ParseUnused /\ OpenUnused

procFrame == <<use_multiprocessing, globals_dict, execution_history, call_log, streams,
               allowed_imports, import_name, import_result, agentVars, parseVars,
               openVars>>

\* process = multiprocessing.Process(...); process.start(); then
\* process.join(timeout=self.timeout) is entered.
StartWorker ==
    /\ process.parent = "idle"
    /\ \E code \in ProcSubmissions :
          process' = [parent |-> "joining", worker |-> "running", code |-> code,
                      queue |-> << >>, timed_out |-> FALSE, reaped |-> FALSE,
                      in_time |-> FALSE, locals_before |-> locals_dict]
    /\ UNCHANGED <<locals_dict, last_call, procFrame>>

\* worker: the submission has run on the copies of the namespace and
\* queue.put(...) has handed the result over.  An exit request leaves the
\* worker without a put.  An item that the feeder thread cannot pickle is
\* dropped: the queue stays empty.
WorkerPut ==
    /\ process.parent # "idle"
    /\ process.worker = "running"
    /\ Terminates(process.code, allowed_imports)
    /\ LET run == WorkerRun(process.code, process.locals_before, globals_dict,
                            allowed_imports)
       IN  /\ run.status # "SystemExit"
           /\ process' =
                 [process EXCEPT
                     !.worker = "put",
                     !.in_time = (process.parent = "joining"),
                     !.queue =
                        IF ~Pickles(globals_dict, run.locals) THEN << >>
                        ELSE <<[record |->
                                   IF run.status = "ok"
                                   THEN ExecutionRecord(TRUE, run.out, run.result,
                                                        "None", "None")
                                   ELSE ExecutionRecord(FALSE, run.out, "None",
                                                        run.error, "traceback"),
                                locals |-> run.locals]>>]
    /\ UNCHANGED <<locals_dict, last_call, procFrame>>

\* worker: the process ends, after its put or through an exit request.  A
\* process that has put an item ends only when the feeder thread has written
\* the item to the pipe, which takes a reader once the buffer is full.
WorkerExit ==
    /\ process.parent # "idle"
    /\ \/ /\ process.worker = "put"
          /\ process.queue # << >> => FitsPipe(Head(process.queue))
       \/ /\ process.worker = "running"
          /\ Terminates(process.code, allowed_imports)
          /\ WorkerRun(process.code, process.locals_before, globals_dict,
                       allowed_imports).status = "SystemExit"
    /\ process' = [process EXCEPT !.worker = "exited"]
    /\ UNCHANGED <<locals_dict, last_call, procFrame>>


\* process.join(timeout=self.timeout) returns: the worker has ended and is
\* reaped, or the timeout has elapsed with the worker still alive.
JoinWithTimeout ==
    /\ process.parent = "joining"
    /\ process' = [process EXCEPT !.parent = "checking",
                                  !.reaped = ~Alive(process.worker)]
    /\ UNCHANGED <<locals_dict, last_call, procFrame>>

\* if process.is_alive():
IsAlive ==
    /\ process.parent = "checking"
    /\ process' = [process EXCEPT
                      !.parent = IF Alive(process.worker) THEN "terminating"
                                 ELSE "reading",
                      !.timed_out = Alive(process.worker),
                      !.reaped = ~Alive(process.worker)]
    /\ UNCHANGED <<locals_dict, last_call, procFrame>>

\* process.terminate(): SIGTERM is sent to the worker.  A live worker ends,
\* unless it has set the signal to be ignored by then.
Terminate ==
    /\ process.parent = "terminating"
    /\ \E ignored \in {process.code = LoopsIgnoringSIGTERM
                           /\ SignalImported(allowed_imports), FALSE} :
          process' = [process EXCEPT
                         !.parent = "reaping",
                         !.worker = IF Alive(process.worker) /\ ~ignored
                                    THEN "terminated" ELSE process.worker]
    /\ UNCHANGED <<locals_dict, last_call, procFrame>>

TimeoutFailure == ExecutionRecord(FALSE, << >>, "None", "Execution timed out", "None")

Returned(result) ==
    [op |-> "execute", n |-> 1, code |-> process.code,
     locals_before |-> process.locals_before, timed_out |-> process.timed_out,
     after_reset |-> FALSE, raised |-> FALSE, result |-> result]

\* The variant of Join that returns while the worker is still alive.
JoinWithoutWaiting ==
    /\ process.parent = "reaping"
    /\ process' = [process EXCEPT !.parent = "returned"]
    /\ last_call' = Returned(TimeoutFailure)
    /\ UNCHANGED <<locals_dict, procFrame>>

\* process.join() returns once the worker has ended; the timeout failure is
\* returned.
Join ==
    /\ process.parent = "reaping"
    /\ ~Alive(process.worker)
    /\ process' = [process EXCEPT !.parent = "returned", !.reaped = TRUE]
    /\ last_call' = Returned(TimeoutFailure)
    /\ UNCHANGED <<locals_dict, procFrame>>

\* result = queue.get_nowait() and what follows it: the successful result's
\* locals are merged; an empty queue gives the retrieval failure.
GetNowait ==
    /\ process.parent = "reading"
    /\ IF process.queue # << >>
       THEN LET item == Head(process.queue)
            IN  /\ locals_dict' = IF item.record.success
                                  THEN item.locals @@ locals_dict
                                  ELSE locals_dict
                /\ last_call' = Returned(item.record)
       ELSE /\ locals_dict' = locals_dict
            /\ last_call' =
                  Returned(ExecutionRecord(FALSE, << >>, "None",
                                           "Failed to retrieve execution results",
                                           "traceback"))
    /\ process' = [process EXCEPT !.parent = "returned", !.queue = << >>]
    /\ UNCHANGED procFrame

NextProc ==
    \/ StartWorker
    \/ WorkerPut
    \/ WorkerExit
    \/ JoinWithTimeout
    \/ IsAlive
    \/ Terminate
    \/ Join
    \/ GetNowait

SpecProc == InitProc /\ [][NextProc]_vars

\* The steps are taken as long as one is possible: the parent and the worker
\* are running processes.
FairSpecProc == SpecProc /\ WF_vars(NextProc)

\* C16: when the wait ends with the worker still running, the worker is
\* terminated and reaped, the call returns a failure with empty output and the
\* timeout error, and the parent's namespace is what it was before the call.
C16_TimeoutOutcome ==
    (process.parent = "returned" /\ process.timed_out) =>
        /\ ~Alive(process.worker)
        /\ process.reaped
        /\ last_call.result = TimeoutFailure
        /\ last_call.result.output = << >>
        /\ locals_dict = process.locals_before

C16_Witness ==
    /\ process.parent = "returned"
    /\ process.timed_out
    /\ process.code = LoopsForever
    /\ process.worker = "terminated"

\* C17: execute in subprocess mode always returns to its caller, whatever
\* the worker does, a worker that survives the terminate request included.
C17_AlwaysReturns == <>(process.parent = "returned")


\* C18: the two ends of a run are told apart by the turn counter.  When
\* run_agentic_loop has returned after a terminal answer the counter is
\* strictly below max_iteration; when it has returned without one, the
\* returned answer is empty and the counter equals max_iteration.
C18_EndsDistinguishable ==
    /\ (pc = "returned" /\ parsed.type = "text") => iteration_num < max_iteration
    /\ (pc = "returned" /\ parsed.type # "text")
          => (final_response = << >> /\ iteration_num = max_iteration)

\* The terminal answer arrives in the last turn the budget allows.
C18_Witness ==
    /\ pc = "returned"
    /\ parsed.type = "text"
    /\ iteration_num = max_iteration - 1
    /\ final_response # << >>


\* A message with a format error: no text content at all, both kinds of
\* marker pair, or neither.
FormatError(msg) ==
    IF msg = None THEN TRUE
    ELSE HasCodePair(msg) = HasAnswerPair(msg)

\* The messages of the two ValueErrors of _parse_response.
ParseErrors ==
    { ValueError("Invalid XML Response Format: expected <code>...</code> or <response>...</response>").contents,
      ValueError("Invalid XML Response Format: <code> and <response> cannot both be present. Only one is allowed.").contents }

\* C19: a format error is never fatal.  The step that receives a message with
\* no text content, with both kinds of marker or with neither does not raise:
\* it adds 1 to the turn counter, appends the assistant turn and one user turn
\* holding the parse error and the decoration, and returns to the top of the
\* loop.
C19_FormatErrorRecovered ==
    [][(pc = "awaiting" /\ chat_history' # chat_history /\ FormatError(response'))
          => /\ pc' = "loop"
             /\ raised' = raised
             /\ iteration_num' = iteration_num + 1
             /\ Len(chat_history') = Len(chat_history) + 2
             /\ \E e \in ParseErrors :
                   chat_history'[Len(chat_history')]
                      = ErrorTurn(e, last_working_copy, iteration_num' + 1)]_vars


\* C20: a transport error raised by the model client leaves run_agentic_loop
\* uncaught.  The step in which the request fails ends the run with that
\* exception, appends no turn, leaves the turn counter and the number of
\* requests as they were, and nothing happens afterwards: the request is not
\* sent again.
C20_TransportErrorPropagates ==
    [][/\ (raised # "TransportError" /\ raised' = "TransportError")
             => /\ pc = "awaiting"
                /\ pc' = "raised"
                /\ chat_history' = chat_history
                /\ iteration_num' = iteration_num
                /\ requests' = requests
       /\ raised = "TransportError" => vars' = vars]_vars

\* The request of a later turn fails, after a turn was counted.
C20_Witness ==
    /\ pc = "raised"
    /\ raised = "TransportError"
    /\ requests = 2
    /\ iteration_num = 1
    /\ Len(chat_history) = 4


\* C21: whenever the worker has finished the submission successfully while
\* the parent was still in its timed wait, execute returns the worker's
\* success result (no timeout, no retrieval failure) and the parent's locals
\* are the worker's final locals laid over the locals before the call.
C21_SuccessMerged ==
    (/\ process.parent = "returned"
     /\ process.in_time
     /\ WorkerRun(process.code, process.locals_before, globals_dict,
                  allowed_imports).status = "ok")
    => LET run == WorkerRun(process.code, process.locals_before, globals_dict,
                            allowed_imports)
       IN  /\ last_call.result
                 = ExecutionRecord(TRUE, run.out, run.result, "None", "None")
           /\ locals_dict = run.locals @@ process.locals_before


\* The text the submission of the last execute call wrote to the captured
\* streams.
CapturedText ==
    EvalOrExec(last_call.code, last_call.locals_before, globals_dict,
               allowed_imports).out

\* C22: output bounding.  For every successful execute call, in both modes,
\* the returned output is the captured text when that has at most
\* max_output_size characters, and otherwise its first max_output_size
\* characters followed by the truncation marker; it is never longer than
\* max_output_size plus the marker.
C22_OutputBounded ==
    (last_call.op = "execute" /\ ~last_call.raised /\ last_call.result.success)
    => /\ Len(CapturedText) <= max_output_size
             => last_call.result.output = CapturedText
       /\ Len(CapturedText) > max_output_size
             => last_call.result.output
                   = SubSeq(CapturedText, 1, max_output_size)
                        \o <<"\n... (output truncated)">>
       /\ Len(last_call.result.output) <= max_output_size + 1


(***************************************************************************)
(* SpecSession: several calls of run_agentic_loop on one agent, as the     *)
(* input loop of main makes them.  A call starts on the agent as the call  *)
(* before left it: the history and the sandbox are kept, the turn counter  *)
(* is set to 0.  The steps of a call are those of Spec, with the assistant *)
(* messages drawn from SessionMessages.                                    *)
(***************************************************************************)

\* Bound: the number of calls of run_agentic_loop in a session.
MaxRuns == 2

SessionMessages ==
    { <<"<response>", "a", "</response>">>,
      <<"a">>,
      CodeMessage(<<OkBlock>>),
      CodeMessage(<<BindingBlock, FailingBlock, OkBlock>>),
      None }

\* The number of calls made so far: each call appends one turn that starts
\* with the user's query.
Runs ==
    Cardinality({i \in DOMAIN chat_history :
                    /\ chat_history[i].role = "user"
                    /\ Head(chat_history[i].content) \in UserQueries})

InitSession ==
    /\ Init
    /\ ~use_multiprocessing
    /\ allowed_imports = Unset
    /\ last_working_copy = "/workspace/out.csv"

\* The variant of RunAgain that starts the call on a new history.
RunAgainOnNewHistory ==
    /\ RunOver
    /\ Runs < MaxRuns
    /\ \E user_query \in UserQueries :
          chat_history' = <<SystemTurn, QueryTurn(user_query, last_working_copy, 0 + 1),
                            QueryTurn(user_query, last_working_copy, 0 + 1)>>
    /\ iteration_num' = 0
    /\ final_response' = << >>
    /\ requests' = 0
    /\ raised' = ""
    /\ response' = << >>
    /\ parsed' = NotParsed
    /\ pc' = "loop"
    /\ UNCHANGED <<dispatchVars, sandboxVars, configVars>>

\* run_agentic_loop(user_query), up to the while loop, on an agent whose
\* call before has returned or raised.
RunAgain ==
    /\ RunOver
    /\ Runs < MaxRuns
    /\ \E user_query \in UserQueries :
          chat_history' = Append(chat_history,
                                 QueryTurn(user_query, last_working_copy, 0 + 1))
    /\ iteration_num' = 0
    /\ final_response' = << >>
    /\ requests' = 0
    /\ raised' = ""
    /\ response' = << >>
    /\ parsed' = NotParsed
    /\ pc' = "loop"
    /\ UNCHANGED <<dispatchVars, sandboxVars, configVars>>

SessionReceive ==
    /\ ReceiveNone \/ ReceiveMalformed \/ ReceiveAnswer \/ ReceiveCode
    /\ response' \in SessionMessages

NextSession ==
    \/ RunAgenticLoop
    \/ RunAgain
    \/ BreakAtLimit
    \/ GetResponse
    \/ RequestFails
    \/ SessionReceive

SpecSession == InitSession /\ [][NextSession]_vars

\* The history h is the start of the history g.
IsPrefix(h, g) == Len(h) <= Len(g) /\ SubSeq(g, 1, Len(h)) = h

\* C23: the conversation is an append-only log.  Through any sequence of
\* calls, however each ends, the first turn is the system turn with the fixed
\* instruction text, and every step leaves the turns already appended where
\* and as they were.
C23_AppendOnly ==
    /\ [](chat_history[1] = SystemTurn)
    /\ [][IsPrefix(chat_history, chat_history')]_vars

\* A second call has ended on a history that holds the turns of a first call
\* that ran to the turn limit.
C23_Witness ==
    /\ Runs = 2
    /\ RunOver
    /\ Len(chat_history) > 2 + 2 * max_iteration
    /\ chat_history[2 + 2 * max_iteration + 1].role = "user"
    /\ Head(chat_history[2 + 2 * max_iteration + 1].content) \in UserQueries


\* After the system turn the roles alternate, user first.
Alternates(history) ==
    \A i \in 2..Len(history) :
        history[i].role = IF i % 2 = 0 THEN "user" ELSE "assistant"

\* Turn i of the history is the user turn appended on an error.
IsErrorTurn(history, i) ==
    /\ history[i].role = "user"
    /\ Head(history[i].content) = "**ERROR**:\n"

ErrorTurns(history) == {i \in 2..Len(history) : IsErrorTurn(history, i)}

\* C24, as stated: the turns alternate user, assistant in a run without
\* errors, and on an error the user turn is appended with no assistant turn
\* before it, so that two user turns follow each other.
C24_UserTurnsOnError ==
    /\ ErrorTurns(chat_history) = {} => Alternates(chat_history)
    /\ \A i \in ErrorTurns(chat_history) : chat_history[i - 1].role = "user"

\* C24: in a run the turns after the system turn alternate user, assistant,
\* errors included: every message received is appended as an assistant turn
\* before it is parsed, so the user turn appended on a parse failure or a
\* failing code block follows the assistant turn of the message that caused
\* it, and no two user turns follow each other.
C24_Alternation ==
    /\ Alternates(chat_history)
    /\ \A i \in ErrorTurns(chat_history) :
          /\ chat_history[i - 1].role = "assistant"
          /\ chat_history[i - 2].role = "user"

\* A run with a parse failure and a failing code block.
C24_Witness ==
    /\ \E i \in ErrorTurns(chat_history) :
          Head(Tail(chat_history[i].content)) \in {e[1] : e \in ParseErrors}
    /\ \E i \in ErrorTurns(chat_history) :
          Head(Tail(chat_history[i].content)) \notin {e[1] : e \in ParseErrors}


(***************************************************************************)
(* SpecCapture: in-process execute calls, step by step, with the streams.  *)
(* streams.stdout and streams.stderr name the objects sys.stdout and       *)
(* sys.stderr are bound to: the host's ("host_stdout", "host_stderr"), the *)
(* StringIO objects of the call ("stdout_capture", "stderr_capture"), or   *)
(* what a submission has bound them to.  A write goes to the object the    *)
(* name is bound to when the statement runs.  host_stdout and host_stderr  *)
(* hold the text that has reached the host's streams.  The host runs with  *)
(* sys.stdout bound to sys.__stdout__, on file descriptor 1, as the        *)
(* interpreter starts it.  Every __import__ of a submission goes through   *)
(* _safe_import.                                                           *)
(***************************************************************************)

CaptureSubmissions ==
    { <<"print(1);">>,
      <<"print(1);", "print(1);">>,
      <<"len(1);">>,
      <<"print(1);", "len(1);">>,
      <<"__import__('sys').stderr.write('2');">>,
      <<"__import__('sys').stderr.write('2');", "print(1);">>,
      <<"__import__('sys').exit();">>,
      <<"print(1);", "__import__('sys').exit();">>,
      <<"__import__('sys').stdout = None;", "print(1);">>,
      <<"__import__('sys').__stdout__.write('3');">>,
      <<"__import__('sys').stdout = __import__('sys').__stdout__;", "print(1);">>,
      <<"__import__('os').write(1, b'4');">>,
      <<"print(1);", "(">> }

\* The module a statement of a submission imports.
Imports(stmt) ==
    CASE stmt = "__import__('os').write(1, b'4');" -> <<<<"os">>>>
      [] stmt \in {"print(1);", "len(1);", "("} -> << >>
      [] OTHER -> <<<<"sys">>>>

\* str(e) of the ImportError that _safe_import raises.
ImportRefused(name) ==
    IF name = <<"os">> THEN "Import of 'os' is not allowed"
    ELSE "Import of 'sys' is not allowed"

\* ast.parse(code) raises SyntaxError.
SyntaxInvalid(code) == \E k \in 1..Len(code) : code[k] = "("

InitCapture ==
    /\ streams = [at |-> "idle", n |-> 0, stdout |-> "host_stdout",
                  stderr |-> "host_stderr", old_stdout |-> "none",
                  old_stderr |-> "none", stdout_capture |-> << >>,
                  stderr_capture |-> << >>, host_stdout |-> << >>,
                  host_stderr |-> << >>, code |-> << >>, rest |-> << >>,
                  pending |-> "none", error |-> "None", success |-> FALSE,
                  output |-> << >>]
    /\ use_multiprocessing = FALSE
    /\ locals_dict = << >>
    /\ execution_history = << >>
    /\ globals_dict = << >>
    /\ call_log = << >>
    /\ last_call = NoCall
    /\ process = NoProcess
    /\ allowed_imports \in {Unset, ListOf(<< >>)}
    /\ import_name = << >>
    /\ import_result = "none"
    /\ AgentUnused /\ ParseUnused /\ OpenUnused

captureFrame == <<use_multiprocessing, locals_dict, globals_dict, call_log, last_call,
                  process, agentVars, parseVars, openVars, importVars>>

\* A write of text to the object named target.
Write(st, target, text) ==
    CASE target = "stdout_capture" ->
            [st EXCEPT !.stdout_capture = st.stdout_capture \o text]
      [] target = "stderr_capture" ->
            [st EXCEPT !.stderr_capture = st.stderr_capture \o text]
      [] target = "host_stdout" -> [st EXCEPT !.host_stdout = st.host_stdout \o text]
      [] target = "host_stderr" -> [st EXCEPT !.host_stderr = st.host_stderr \o text]
      [] OTHER -> st

\* str(e) of the SyntaxError that ast.parse raises on an unclosed bracket.
NeverClosed == "'(' was never closed (<unknown>, line 1)"

\* self.execution_history.append({'code': code, 'result': execution_record})
\* with the record of the except Exception path.
FailureRecorded(history, code, output, error) ==
    Append(history, [code |-> code,
                     result |-> ExecutionRecord(FALSE, output, "None", error,
                                                "traceback")])

\* _execute_in_thread(code) up to the with statement: new StringIO objects,
\* ast.parse(code).  A syntax error is handled by except Exception before
\* the capture is entered: the failure is recorded in the history and
\* returned.
CallExecuteInThread ==
    /\ streams.at \in {"idle", "returned", "raised"}
    /\ streams.n < MaxCalls
    /\ \E code \in CaptureSubmissions :
          /\ streams' = [streams EXCEPT
                            !.n = streams.n + 1,
                            !.stdout_capture = << >>,
                            !.stderr_capture = << >>,
                            !.code = code,
                            !.rest = code,
                            !.pending = IF SyntaxInvalid(code) THEN "Exception"
                                        ELSE "none",
                            !.error = IF SyntaxInvalid(code) THEN NeverClosed
                                      ELSE "None",
                            !.success = FALSE,
                            !.output = << >>,
                            !.at = IF SyntaxInvalid(code) THEN "returned" ELSE "parsed"]
          /\ execution_history' =
                IF SyntaxInvalid(code)
                THEN FailureRecorded(execution_history, code, << >>, NeverClosed)
                ELSE execution_history
    /\ UNCHANGED captureFrame

\* capture_output() up to its yield.
EnterCapture ==
    /\ streams.at = "parsed"
    /\ streams' = [streams EXCEPT
                      !.old_stdout = streams.stdout,
                      !.old_stderr = streams.stderr,
                      !.stdout = "stdout_capture",
                      !.stderr = "stderr_capture",
                      !.at = "running"]
    /\ UNCHANGED <<execution_history, captureFrame>>

\* exec(code, ...): the next statement of the submission runs.  A statement
\* whose import is refused raises the ImportError.  A write to
\* sys.__stdout__ or to file descriptor 1 goes to the host's stream whatever
\* sys.stdout is bound to.
RunStatement ==
    /\ streams.at = "running"
    /\ streams.rest # << >>
    /\ LET stmt == Head(streams.rest)
           st == [streams EXCEPT !.rest = Tail(streams.rest)]
       IN  streams' =
              IF Imports(stmt) # << >>
                 /\ _safe_import(Head(Imports(stmt)), allowed_imports) # "imported"
              THEN [st EXCEPT !.pending = "Exception",
                              !.error = ImportRefused(Head(Imports(stmt))),
                              !.at = "raising"]
              ELSE
              CASE stmt = "print(1);" -> Write(st, st.stdout, <<"1", "\n">>)
                [] stmt = "__import__('sys').stderr.write('2');" ->
                      Write(st, st.stderr, <<"2">>)
                [] stmt = "__import__('sys').stdout = None;" ->
                      [st EXCEPT !.stdout = "None"]
                [] stmt = "__import__('sys').__stdout__.write('3');" ->
                      Write(st, "host_stdout", <<"3">>)
                [] stmt = "__import__('sys').stdout = __import__('sys').__stdout__;" ->
                      [st EXCEPT !.stdout = "host_stdout"]
                [] stmt = "__import__('os').write(1, b'4');" ->
                      Write(st, "host_stdout", <<"4">>)
                [] stmt = "len(1);" ->
                      [st EXCEPT !.pending = "Exception",
                                 !.error = "object of type 'int' has no len()",
                                 !.at = "raising"]
                [] stmt = "__import__('sys').exit();" ->
                      [st EXCEPT !.pending = "SystemExit", !.at = "raising"]
    /\ UNCHANGED <<execution_history, captureFrame>>

\* The variant of ExitCapture without the finally clause: the streams are
\* put back only when the body has ended without an exception.
ExitCaptureWithoutFinally ==
    /\ \/ streams.at = "running" /\ streams.rest = << >>
       \/ streams.at = "raising"
    /\ LET captured == streams.stdout_capture \o streams.stderr_capture
       IN  /\ streams' = [streams EXCEPT
                          !.stdout = IF streams.pending = "none"
                                     THEN streams.old_stdout ELSE streams.stdout,
                          !.stderr = IF streams.pending = "none"
                                     THEN streams.old_stderr ELSE streams.stderr,
                          !.success = (streams.pending = "none"),
                          !.output = IF streams.pending = "none" THEN Truncate(captured)
                                     ELSE IF streams.pending = "Exception" THEN captured
                                     ELSE << >>,
                          !.at = IF streams.pending = "SystemExit" THEN "raised"
                                 ELSE "returned"]
           /\ execution_history' =
                 CASE streams.pending = "none" ->
                         Append(execution_history,
                                [code |-> streams.code,
                                 result |-> ExecutionRecord(TRUE, Truncate(captured),
                                                            "None", "None", "None")])
                   [] streams.pending = "Exception" ->
                         FailureRecorded(execution_history, streams.code, captured,
                                         streams.error)
                   [] OTHER -> execution_history
    /\ UNCHANGED captureFrame

\* The finally clause of capture_output() and the rest of the call: the
\* body has ended or an exception is on its way out; the output of the
\* record is stdout_capture.getvalue() + stderr_capture.getvalue().  A call
\* that returns appends its submission and its record to the history; an exit
\* request leaves the call before that.
ExitCapture ==
    /\ \/ streams.at = "running" /\ streams.rest = << >>
       \/ streams.at = "raising"
    /\ LET captured == streams.stdout_capture \o streams.stderr_capture
       IN  /\ streams' = [streams EXCEPT
                          !.stdout = streams.old_stdout,
                          !.stderr = streams.old_stderr,
                          !.success = (streams.pending = "none"),
                          !.output = IF streams.pending = "none" THEN Truncate(captured)
                                     ELSE IF streams.pending = "Exception" THEN captured
                                     ELSE << >>,
                          !.at = IF streams.pending = "SystemExit" THEN "raised"
                                 ELSE "returned"]
           /\ execution_history' =
                 CASE streams.pending = "none" ->
                         Append(execution_history,
                                [code |-> streams.code,
                                 result |-> ExecutionRecord(TRUE, Truncate(captured),
                                                            "None", "None", "None")])
                   [] streams.pending = "Exception" ->
                         FailureRecorded(execution_history, streams.code, captured,
                                         streams.error)
                   [] OTHER -> execution_history
    /\ UNCHANGED captureFrame

NextCapture ==
    \/ CallExecuteInThread
    \/ EnterCapture
    \/ RunStatement
    \/ ExitCapture

SpecCapture == InitCapture /\ [][NextCapture]_vars

\* C25: output capture is scoped to the call.  Whenever no in-process
\* execute call is under way (before the first call, after a call has
\* returned, after an exit request has left it), sys.stdout and sys.stderr
\* are bound to the host's streams, as before the call; and at no time has
\* anything a submission wrote reached the host's streams.
C25_CaptureScoped ==
    /\ streams.at \in {"idle", "returned", "raised"}
          => (streams.stdout = "host_stdout" /\ streams.stderr = "host_stderr")
    /\ streams.host_stdout = << >>
    /\ streams.host_stderr = << >>

\* A call has ended on the error path with partial output, after an earlier
\* call.
C25_Witness ==
    /\ streams.at = "returned"
    /\ streams.n = 2
    /\ streams.pending = "Exception"
    /\ streams.output = <<"1", "\n">>


\* The text ends with the lines of suffix.
EndsWith(text, suffix) ==
    /\ Len(text) >= Len(suffix)
    /\ SubSeq(text, Len(text) - Len(suffix) + 1, Len(text)) = suffix

\* The turns a step appends to the history.
Appended == (Len(chat_history) + 1)..Len(chat_history')

\* C26: every user turn appended by run_agentic_loop (the request, the turn
\* after a parse error, after a failing block, after a successful batch) ends
\* with the lines "- Last Working Copy: <path or None>" and "- RUN n/max",
\* where n is the turn counter plus 1 when the turn is appended, and n is at
\* most max_iteration.
C26_Decoration ==
    [][\A i \in Appended :
          chat_history'[i].role = "user"
             => /\ EndsWith(chat_history'[i].content,
                            Decoration(last_working_copy', iteration_num' + 1))
                /\ iteration_num' + 1 <= max_iteration]_vars


\* The number of places of seq that hold an element of toks.
Occurrences(seq, toks) == Cardinality({k \in DOMAIN seq : seq[k] \in toks})

\* The parts of a submission that write "1" when they run.
WritesOne == {"print(1);", ParsingExpression}

\* C27: one execute call runs its submission at most once.  The output of a
\* call holds the text of each write of the submission at most once; this
\* includes a submission whose evaluation as an expression raises a
\* SyntaxError while it runs.
C27_AppliedOnce ==
    (last_call.op = "execute" /\ ~last_call.raised)
    => Occurrences(last_call.result.output, {"1"})
          <= Occurrences(last_call.code, WritesOne)


\* C28: binding round trip.  get_variable(name) right after
\* set_variable(name, v) returns v; get_variable returns the local binding of
\* a name bound in both mappings, and the default only for a name bound in
\* neither.
C28_BindingRoundTrip ==
    last_call.op = "get_variable" =>
        /\ last_call.after_set # << >> => last_call.result = last_call.after_set[1]
        /\ (last_call.name \in DOMAIN locals_dict /\ last_call.name \in DOMAIN globals_dict)
              => last_call.result = locals_dict[last_call.name]
        /\ last_call.result = Default
              <=> (last_call.name \notin DOMAIN locals_dict
                     /\ last_call.name \notin DOMAIN globals_dict)

=============================================================================
